---- MODULE Spec2Model ----
(***************************************************************************)
(* Model of the Globus Bank support chatbot (src/app.py and src/modules).  *)
(*                                                                         *)
(* Text is modelled as a sequence of one-character strings, so that        *)
(* strip(), split(), lower() and substring search are computed as the      *)
(* Python code computes them.  Opaque texts (fixed user-facing messages,   *)
(* model replies) are one-element sequences holding the whole text.        *)
(* An operation that may raise returns a record with a `raised' flag.      *)
(***************************************************************************)
EXTENDS Integers, Sequences, FiniteSets, TLC

VARIABLES
    session,          \* Flask session: function from the keys present to values
    customers_by_id,  \* auth._CUSTOMERS_BY_ID (card status is the mutable part)
    resp,             \* the response to the last request, with the calls it made
    fullLog,          \* ghost: every entry appended since the last authenticate
    ic,               \* intent-classifier harness: completion outcome and label
    kb,               \* retrieval harness: similarity array, k and ranking
    ck,               \* chunker harness: document lines and chunks
    pb,               \* prompt harness: generate_response arguments and prompt
    th,               \* request threads of the server: position of each
    llm               \* llm._llm_instance, constructor runs, calls in flight

vars == <<session, customers_by_id, resp, fullLog, ic, kb, ck, pb, th, llm>>

----------------------------------------------------------------------------
(* Bounds *)

MaxSessionTurns == 2   \* chat turns per authenticate in Spec
MaxHistoryChats == 9   \* chat turns per authenticate in SpecHistory
MaxPieces == 3         \* pieces concatenated into one completion text
MaxChunks == 3         \* indexed chunks in SpecRetrieval
MaxSim == 2            \* distinct similarity levels in SpecRetrieval
MaxLines == 4          \* lines of the product document in SpecChunker
MaxPromptHistory == 2  \* history entries handed to generate_response in SpecPrompt
MaxThreads == 2        \* request threads of the server in SpecConcurrent

----------------------------------------------------------------------------
(* config.py *)

MAX_HISTORY_TURNS == 8
KB_TOP_K == 3
KB_CHUNK_SIZE == 400

greeting == <<"g","r","e","e","t","i","n","g">>
general_inquiry == <<"g","e","n","e","r","a","l","_","i","n","q","u","i","r","y">>
account_information ==
    <<"a","c","c","o","u","n","t","_","i","n","f","o","r","m","a","t","i","o","n">>
product_inquiry == <<"p","r","o","d","u","c","t","_","i","n","q","u","i","r","y">>
card_block_request ==
    <<"c","a","r","d","_","b","l","o","c","k","_","r","e","q","u","e","s","t">>

INTENTS == <<greeting, general_inquiry, account_information, product_inquiry,
             card_block_request>>

ACCOUNT_NOT_FOUND_MSG == <<"I couldn't find a Globus Bank account matching that number.">>
ANONYMOUS_RESTRICTION_MSG ==
    <<"I can only provide general product information for unauthenticated sessions.">>
CARD_BLOCK_ANONYMOUS_MSG == <<"Card blocking requires a verified account.">>
APOLOGY_MSG == <<"I'm having trouble responding right now. Please try again in a moment.">>

----------------------------------------------------------------------------
(* Python string primitives *)

Range(s) == {s[i] : i \in 1..Len(s)}

MinOf(S) == CHOOSE x \in S : \A y \in S : x <= y
MaxOf(S) == CHOOSE x \in S : \A y \in S : x >= y

Whitespace == {" ", "\t"}

\* str.strip(chars): drop the leading and trailing characters that are in chars
StripChars(s, chars) ==
    LET keep == {i \in 1..Len(s) : s[i] \notin chars}
    IN  IF keep = {} THEN <<>> ELSE SubSeq(s, MinOf(keep), MaxOf(keep))

\* The text as given
NoStrip(s) == s

\* str.strip()
Strip(s) == StripChars(s, Whitespace)

\* str.split()[0]: the first maximal run of non-whitespace characters
FirstToken(s) ==
    LET t == Strip(s)
        sp == {i \in 1..Len(t) : t[i] \in Whitespace}
    IN  IF sp = {} THEN t ELSE SubSeq(t, 1, MinOf(sp) - 1)

UpperCase == <<"A","B","C","D","E","F","G","H","I","J","K","L","M",
               "N","O","P","Q","R","S","T","U","V","W","X","Y","Z">>
LowerCase == <<"a","b","c","d","e","f","g","h","i","j","k","l","m",
               "n","o","p","q","r","s","t","u","v","w","x","y","z">>

LowerChar(c) ==
    IF c \in Range(UpperCase)
    THEN LowerCase[CHOOSE i \in 1..26 : UpperCase[i] = c]
    ELSE c

\* str.lower()
Lower(s) == [i \in 1..Len(s) |-> LowerChar(s[i])]

\* needle in hay
Contains(hay, needle) ==
    \E i \in 0..(Len(hay) - Len(needle)) : SubSeq(hay, i + 1, i + Len(needle)) = needle

Digits == <<"0","1","2","3","4","5","6","7","8","9">>

DigitVal(c) == (CHOOSE i \in 1..10 : Digits[i] = c) - 1

RECURSIVE DecimalValue(_)
DecimalValue(s) ==
    IF s = <<>> THEN 0
    ELSE 10 * DecimalValue(SubSeq(s, 1, Len(s) - 1)) + DigitVal(s[Len(s)])

\* int(text.strip()): ValueError unless the stripped text is a run of digits
ParseInt(text) ==
    LET t == Strip(text)
    IN  IF t # <<>> /\ Range(t) \subseteq Range(Digits)
        THEN [raised |-> FALSE, value |-> DecimalValue(t)]
        ELSE [raised |-> TRUE, value |-> 0]

----------------------------------------------------------------------------
(* modules/llm.py *)

\* A completion outcome: the engine raises, or returns a text.
Completion(err, text) == [err |-> err, text |-> text]

generate(out) ==
    IF out.err THEN [raised |-> TRUE, value |-> <<>>]
    ELSE [raised |-> FALSE, value |-> Strip(out.text)]

----------------------------------------------------------------------------
(* modules/intent.py *)

Punct == {".", ",", "!", "?", "\"", "'"}

first_word(raw) ==
    IF Strip(raw) # <<>> THEN StripChars(Lower(FirstToken(raw)), Punct) ELSE <<>>

\* The substring scan without lower-casing the completion.
FuzzyMatchesCaseSensitive(raw) == {i \in 1..Len(INTENTS) : Contains(raw, INTENTS[i])}

\* The labels occurring in raw.lower(), as indices into INTENTS
FuzzyMatches(raw) == {i \in 1..Len(INTENTS) : Contains(Lower(raw), INTENTS[i])}

parse_intent(raw) ==
    IF first_word(raw) \in Range(INTENTS) THEN first_word(raw)
    ELSE IF FuzzyMatches(raw) # {} THEN INTENTS[MinOf(FuzzyMatches(raw))]
    ELSE general_inquiry

classify_intent_unguarded(message, out) ==
    IF generate(out).raised THEN [raised |-> TRUE, value |-> <<>>]
    ELSE [raised |-> FALSE, value |-> parse_intent(generate(out).value)]

classify_intent(message, out) ==
    IF generate(out).raised THEN [raised |-> FALSE, value |-> general_inquiry]
    ELSE [raised |-> FALSE, value |-> parse_intent(generate(out).value)]

----------------------------------------------------------------------------
(* modules/auth.py *)

Card(issuer, type, status) == [card_issuer |-> issuer, card_type |-> type, status |-> status]

\* The workbook as loaded at import time: customer 1 owns accounts 12 and 13
\* and two cards, customer 2 owns account 20 and no card.
InitialCustomers ==
    <<[id |-> 1, name |-> "Ada",
       cards |-> <<Card(<<"Visa">>, <<"Credit">>, "Active"),
                  Card(<<"Verve">>, <<"Debit">>, "Active")>>],
      [id |-> 2, name |-> "Bola", cards |-> <<>>]>>

_ACCOUNTS_BY_NO == [n \in {12, 13, 20} |-> IF n = 20 THEN 2 ELSE 1]

None == [id |-> 0, name |-> "", cards |-> <<>>]

\* A lookup that knows only each customer's first account.
get_customer_first_account_only(account_number, store) ==
    IF ParseInt(account_number).raised THEN None
    ELSE IF ParseInt(account_number).value \notin {12, 20} THEN None
    ELSE store[_ACCOUNTS_BY_NO[ParseInt(account_number).value]]

get_customer(account_number, store) ==
    IF ParseInt(account_number).raised THEN None
    ELSE IF ParseInt(account_number).value \notin DOMAIN _ACCOUNTS_BY_NO THEN None
    ELSE store[_ACCOUNTS_BY_NO[ParseInt(account_number).value]]

\* The profile text is opaque; formatting raises on a malformed cell
\* (for instance a blank balance), which `fails' stands for.
format_customer_context(customer, queried_account, fails) ==
    [raised |-> fails, value |-> <<"CUSTOMER PROFILE">>]

AlreadyBlocked == <<"already", " ", "blocked">>

CardIndex(customer, card_issuer, card_type) ==
    {i \in 1..Len(customer.cards) :
        /\ customer.cards[i].card_issuer = card_issuer
        /\ customer.cards[i].card_type = card_type}

\* block_card: the simulated core-banking call.  It finds the card by issuer
\* and type on the customer owning the account and flips its status.
block_card(account_number, card_issuer, card_type, store) ==
    LET customer == get_customer(account_number, store)
        found == CardIndex(customer, card_issuer, card_type)
        i == MinOf(found)
    IN  IF found = {}
        THEN [success |-> FALSE, reference |-> "null", store |-> store,
              message |-> <<"No", " ">> \o card_issuer \o <<" ">> \o card_type
                          \o <<" ", "card", " ", "found", " ", "on", " ", "this", " ", "account.">>]
        ELSE IF customer.cards[i].status = "Blocked"
        THEN [success |-> FALSE, reference |-> "null", store |-> store,
              message |-> <<"This", " ", "card", " ", "is", " ">> \o AlreadyBlocked \o <<".">>]
        ELSE [success |-> TRUE, reference |-> "BLK",
              store |-> [store EXCEPT ![customer.id].cards[i].status = "Blocked"],
              message |-> <<"Your", " ">> \o card_issuer \o <<" ">> \o card_type
                          \o <<" ", "card", " ", "has", " ", "been", " ", "successfully", " ", "blocked.">>]

----------------------------------------------------------------------------
(* modules/knowledge_base.py *)

\* The document is a sequence of lines joined by "\n".  A line is known by
\* how it starts and by its length: "upper" starts with a capital letter,
\* "item" with digits, a dot and a space, "blank" is empty, "text" is the rest.
Line(kind, len) == [kind |-> kind, len |-> len]

\* [A-Z][^\n]{2,50}\n : a capital and 2 to 50 more characters, then a newline
LooksLikeHeader(lines, i) ==
    /\ lines[i].kind = "upper"
    /\ lines[i].len >= 3 /\ lines[i].len <= 51
    /\ i < Len(lines)

\* \d+\. at the start of a line
IsNumberedItem(lines, i) == lines[i].kind = "item"

RECURSIVE SortedSeq(_)
SortedSeq(S) == IF S = {} THEN <<>> ELSE <<MinOf(S)>> \o SortedSeq(S \ {MinOf(S)})

\* re.split at the newlines before the lines in `starts': the line ranges
\* of lines[a..b] between the cuts, in order
CutAt(a, b, starts) ==
    LET cuts == SortedSeq({a} \cup {i \in starts : a < i /\ i <= b})
    IN  [k \in 1..Len(cuts) |->
            [first |-> cuts[k],
             last |-> IF k < Len(cuts) THEN cuts[k + 1] - 1 ELSE b]]

RECURSIVE TextLen(_, _, _)
\* len() of lines[a..b] joined by newlines
TextLen(lines, a, b) ==
    IF a > b THEN 0
    ELSE IF a = b THEN lines[a].len
    ELSE lines[a].len + 1 + TextLen(lines, a + 1, b)

\* str.strip() of a range of lines: the blank lines at both ends go
StripLines(lines, r) ==
    LET keep == {i \in r.first..r.last : lines[i].kind # "blank"}
    IN  IF keep = {} THEN [first |-> 1, last |-> 0, len |-> 0]
        ELSE [first |-> MinOf(keep), last |-> MaxOf(keep),
              len |-> TextLen(lines, MinOf(keep), MaxOf(keep))]

RECURSIVE Flatten(_)
Flatten(ss) == IF ss = <<>> THEN <<>> ELSE Head(ss) \o Flatten(Tail(ss))

LongerThan20(c) == c.len > 20
NonEmpty(c) == c.len > 0

\* The chunks of one section
SectionChunks(lines, section) ==
    IF section.len = 0 \/ section.len < 30 THEN <<>>
    ELSE IF section.len <= KB_CHUNK_SIZE THEN <<section>>
    ELSE LET subs == CutAt(section.first, section.last,
                           {i \in 1..Len(lines) : IsNumberedItem(lines, i)})
         IN  SelectSeq([k \in 1..Len(subs) |-> StripLines(lines, subs[k])], NonEmpty)

_split_into_chunks(lines) ==
    LET sections == CutAt(1, Len(lines), {i \in 2..Len(lines) : LooksLikeHeader(lines, i)})
        chunks == Flatten([k \in 1..Len(sections) |->
                              SectionChunks(lines, StripLines(lines, sections[k]))])
    IN  SelectSeq(chunks, LongerThan20)

IndexOrders(n) == {p \in [1..n -> 1..n] : \A i, j \in 1..n : i # j => p[i] # p[j]}

\* np.argsort(similarity): an index order that sorts ascending.  The default
\* sort kind is not stable, so equal scores may come out in any order.
Argsort(similarity) ==
    {p \in IndexOrders(Len(similarity)) :
        \A i \in 1..(Len(similarity) - 1) : similarity[p[i]] <= similarity[p[i + 1]]}

Reverse(s) == [i \in 1..Len(s) |-> s[Len(s) + 1 - i]]

\* s[:k] for k >= 0
Take(s, k) == SubSeq(s, 1, IF k < Len(s) THEN k ELSE Len(s))
TakeOneMore(s, k) == SubSeq(s, 1, IF k + 1 < Len(s) THEN k + 1 ELSE Len(s))

top_idx_one_more(order, top_k) == TakeOneMore(Reverse(order), top_k)

\* np.argsort(similarity)[::-1][:top_k], for one outcome `order' of the sort
top_idx(order, top_k) == Take(Reverse(order), top_k)

\* The chunks joined by the separator: modelled as the list of chunk ids, the
\* empty list being the empty string.
get_relevant_info(query, top_k, order, fails) ==
    [raised |-> fails, value |-> [none |-> FALSE, chunks |-> top_idx(order, top_k)]]

\* product_docs = None
NoDocs == [none |-> TRUE, chunks |-> <<>>]

----------------------------------------------------------------------------
(* modules/response.py *)

Block(name, body) == [block |-> name, body |-> body]

_format_cards(customer) ==
    IF customer.cards = <<>> THEN <<"No cards found on this account.">>
    ELSE customer.cards

\* The system blocks that depend on the customer and the intent
WhoBlocks(intent, customer, context) ==
    IF customer # None
    THEN <<Block("customer", context)>>
         \o (IF intent = card_block_request
             THEN <<Block("cards", _format_cards(customer))>> ELSE <<>>)
    ELSE <<Block("anonymous", ANONYMOUS_RESTRICTION_MSG)>>

\* `if product_docs:' is false for None and for the empty string
DocsBlocks(product_docs) ==
    IF ~product_docs.none /\ product_docs.chunks # <<>>
    THEN <<Block("docs", product_docs.chunks)>> ELSE <<>>

\* One tagged turn per history entry
TurnBlocks(history) ==
    [i \in 1..Len(history) |->
        Block(IF history[i].role = "user" THEN "user" ELSE "assistant", history[i].content)]

_build_prompt_message_first(message, intent, customer, queried_account, product_docs, history, fmtFails) ==
    LET ctx == format_customer_context(customer, queried_account, fmtFails)
    IN  IF customer # None /\ ctx.raised
        THEN [raised |-> TRUE, value |-> <<>>]
        ELSE [raised |-> FALSE,
              value |-> <<Block("base", <<"persona">>)>>
                        \o WhoBlocks(intent, customer, ctx.value)
                        \o DocsBlocks(product_docs)
                        \o <<Block("user", message)>> \o TurnBlocks(history)]

_build_prompt(message, intent, customer, queried_account, product_docs, history, fmtFails) ==
    LET ctx == format_customer_context(customer, queried_account, fmtFails)
    IN  IF customer # None /\ ctx.raised
        THEN [raised |-> TRUE, value |-> <<>>]
        ELSE [raised |-> FALSE,
              value |-> <<Block("base", <<"persona">>)>>
                        \o WhoBlocks(intent, customer, ctx.value)
                        \o DocsBlocks(product_docs)
                        \o TurnBlocks(history)
                        \o <<Block("user", message)>>]

\* The part of generate_response after the access-control gate.
prompt_and_generate(message, intent, customer, queried_account, product_docs, history, fmtFails, out) ==
    LET prompt == _build_prompt(message, intent, customer, queried_account,
                                product_docs, history, fmtFails)
    IN  IF prompt.raised
        THEN [raised |-> TRUE, value |-> <<>>, calls |-> <<"format_customer_context">>]
        ELSE [raised |-> FALSE,
              value |-> IF generate(out).raised THEN APOLOGY_MSG ELSE generate(out).value,
              calls |-> (IF customer # None THEN <<"format_customer_context">> ELSE <<>>)
                        \o <<"generate">>]

generate_response_ungated(message, intent, customer, queried_account, product_docs, history, fmtFails, out) ==
    prompt_and_generate(message, intent, customer, queried_account, product_docs,
                        history, fmtFails, out)

generate_response(message, intent, customer, queried_account, product_docs, history, fmtFails, out) ==
    IF customer = None /\ intent = account_information
    THEN [raised |-> FALSE, value |-> ANONYMOUS_RESTRICTION_MSG, calls |-> <<>>]
    ELSE IF customer = None /\ intent = card_block_request
    THEN [raised |-> FALSE, value |-> CARD_BLOCK_ANONYMOUS_MSG, calls |-> <<>>]
    ELSE prompt_and_generate(message, intent, customer, queried_account, product_docs,
                             history, fmtFails, out)

----------------------------------------------------------------------------
(* app.py *)

KbIntentsGeneralOnly == {general_inquiry}

_KB_INTENTS == {product_inquiry, general_inquiry}

Entry(role, content) == [role |-> role, content |-> content]

KeepOldest(history) ==
    IF Len(history) > MAX_HISTORY_TURNS * 2
    THEN SubSeq(history, 1, MAX_HISTORY_TURNS * 2) ELSE history

\* A cut that keeps one entry less than a whole number of turns
KeepOddTail(history) ==
    IF Len(history) > MAX_HISTORY_TURNS * 2
    THEN SubSeq(history, Len(history) - MAX_HISTORY_TURNS * 2 + 2, Len(history))
    ELSE history

_trim_history(history) ==
    IF Len(history) > MAX_HISTORY_TURNS * 2
    THEN SubSeq(history, Len(history) - MAX_HISTORY_TURNS * 2 + 1, Len(history))
    ELSE history

\* session.get(key, default)
Get(s, key, default) == IF key \in DOMAIN s THEN s[key] ELSE default

\* The session states of the design's state machine
Authenticated(s) == Get(s, "authenticated", FALSE) /\ Get(s, "customer", None) # None
NoSession(s) == "authenticated" \notin DOMAIN s

\* A response; `before' (ghost) records the session state the request met.
Response(route, arg, status, kind) ==
    [route |-> route, arg |-> arg, status |-> status, kind |-> kind,
     reply |-> <<>>, intent |-> <<>>, calls |-> <<>>, success |-> FALSE,
     before |-> IF Authenticated(session) THEN "authenticated"
                ELSE IF NoSession(session) THEN "none" ELSE "anonymous"]

\* POST /api/authenticate; a missing field reads as the empty text
AuthenticateWith(accounts) ==
    \E raw \in accounts :
        LET account_number == Strip(raw)
            customer == get_customer(account_number, customers_by_id)
        IN  IF account_number = <<>>
            THEN /\ resp' = Response("authenticate", raw, 400, "error")
                 /\ UNCHANGED <<session, customers_by_id, fullLog, ic, kb, ck, pb, th, llm>>
            ELSE /\ session' = [history |-> <<>>,
                                authenticated |-> customer # None,
                                customer |-> customer,
                                queried_account |-> account_number]
                 /\ resp' = [Response("authenticate", raw, 200, "json")
                                EXCEPT !.success = customer # None,
                                       !.calls = <<"get_customer">>]
                 /\ fullLog' = <<>>
                 /\ UNCHANGED <<customers_by_id, ic, kb, ck, pb, th, llm>>

\* The collaborator outcomes a request can meet: the retrieval raises or
\* returns a ranking (one per outcome of the sort), only if it is called.
RetrievalOutcomes(intent, message, kbOutcomes, sims) ==
    IF intent \in _KB_INTENTS
    THEN {get_relevant_info(message, KB_TOP_K, order, kbFails) :
            order \in UNION {Argsort(sim) : sim \in sims}, kbFails \in kbOutcomes}
    ELSE {[raised |-> FALSE, value |-> NoDocs]}

Unhandled(raw, intent, calls) ==
    /\ resp' = [Response("chat", raw, 500, "unhandled")
                  EXCEPT !.intent = intent, !.calls = calls]
    /\ UNCHANGED <<session, fullLog>>

\* POST /api/chat.  cls and gen are the completion outcomes of the two model
\* calls; an exception that leaves the handler is the framework's 500.
ChatWith(messages, clsOutcomes, kbOutcomes, fmtOutcomes, genOutcomes, sims, maxTurns) ==
    \E raw \in messages : \E message \in {Strip(raw)} :
        IF "authenticated" \notin DOMAIN session
        THEN /\ resp' = Response("chat", raw, 403, "error")
             /\ UNCHANGED <<session, customers_by_id, fullLog, ic, kb, ck, pb, th, llm>>
        ELSE IF message = <<>>
        THEN /\ resp' = Response("chat", raw, 400, "error")
             /\ UNCHANGED <<session, customers_by_id, fullLog, ic, kb, ck, pb, th, llm>>
        ELSE
          LET customer == Get(session, "customer", None)
              queried_account == Get(session, "queried_account", <<>>)
              history == Get(session, "history", <<>>)
          IN
          /\ Len(fullLog) < 2 * maxTurns
          /\ UNCHANGED <<customers_by_id, ic, kb, ck, pb, th, llm>>
          /\ \E cls \in clsOutcomes : \E classified \in {classify_intent(message, cls)} :
              IF classified.raised
              THEN Unhandled(raw, <<>>, <<"classify_intent">>)
              ELSE
              \E intent \in {classified.value} :
              \E docs \in RetrievalOutcomes(intent, message, kbOutcomes, sims) :
              \E trace \in {<<"classify_intent">> \o (IF intent \in _KB_INTENTS
                                                      THEN <<"get_relevant_info">> ELSE <<>>)} :
                IF docs.raised
                THEN Unhandled(raw, intent, trace)
                ELSE
                \E fmtFails \in (IF customer = None THEN {FALSE} ELSE fmtOutcomes) :
                \E gen \in genOutcomes :
                \E answer \in {generate_response(message, intent, customer, queried_account,
                                                 docs.value, history, fmtFails, gen)} :
                  IF answer.raised
                  THEN Unhandled(raw, intent, trace \o answer.calls)
                  ELSE
                  \E appended \in {history \o <<Entry("user", message),
                                                Entry("assistant", answer.value)>>} :
                    /\ session' = [session EXCEPT !.history = _trim_history(appended)]
                    /\ fullLog' = fullLog \o <<Entry("user", message),
                                               Entry("assistant", answer.value)>>
                    /\ resp' = [Response("chat", raw, 200, "json")
                                  EXCEPT !.intent = intent, !.reply = answer.value,
                                         !.calls = trace \o answer.calls]

\* POST /api/block-card
BlockCardWith(issuers, types) ==
    \E rawIssuer \in issuers, rawType \in types :
        LET customer == Get(session, "customer", None)
            card_issuer == Strip(rawIssuer)
            card_type == Strip(rawType)
            account_number == Get(session, "queried_account", <<>>)
            result == block_card(account_number, card_issuer, card_type, customers_by_id)
            arg == <<rawIssuer, rawType>>
        IN  IF ~Get(session, "authenticated", FALSE) \/ customer = None
            THEN /\ resp' = Response("block-card", arg, 403, "error")
                 /\ UNCHANGED <<session, customers_by_id, fullLog, ic, kb, ck, pb, th, llm>>
            ELSE IF card_issuer = <<>> \/ card_type = <<>>
            THEN /\ resp' = Response("block-card", arg, 400, "error")
                 /\ UNCHANGED <<session, customers_by_id, fullLog, ic, kb, ck, pb, th, llm>>
            ELSE /\ customers_by_id' = result.store
                 /\ session' = IF result.success
                               THEN [session EXCEPT !.customer = customer] ELSE session
                 /\ resp' = [Response("block-card", arg,
                                      IF result.success THEN 200
                                      ELSE IF Contains(result.message, AlreadyBlocked)
                                           THEN 400 ELSE 404,
                                      "json")
                               EXCEPT !.success = result.success, !.reply = result.message]
                 /\ UNCHANGED <<fullLog, ic, kb, ck, pb, th, llm>>

\* A reset that empties the conversation and keeps the other keys.
ResetHistoryOnly ==
    /\ session' = IF NoSession(session) THEN session ELSE [session EXCEPT !.history = <<>>]
    /\ resp' = Response("reset", <<>>, 200, "json")
    /\ fullLog' = <<>>
    /\ UNCHANGED <<customers_by_id, ic, kb, ck, pb, th, llm>>

\* POST /api/reset
Reset ==
    /\ session' = <<>>
    /\ resp' = Response("reset", <<>>, 200, "json")
    /\ fullLog' = <<>>
    /\ UNCHANGED <<customers_by_id, ic, kb, ck, pb, th, llm>>

----------------------------------------------------------------------------
(* Requests of one browser session against the running server *)

AccountInputs ==
    {<<>>, <<" ">>, <<"1","2">>, <<" ","1","3"," ">>, <<"2","0">>, <<"9","9">>, <<"a","b">>}

MessageInputs == {<<>>, <<" ">>, <<" ","h","i"," ">>}

ClassifierOutcomes ==
    {Completion(TRUE, <<>>), Completion(FALSE, <<>>), Completion(FALSE, greeting),
     Completion(FALSE, product_inquiry), Completion(FALSE, account_information),
     Completion(FALSE, card_block_request)}

GenerationOutcomes == {Completion(TRUE, <<>>), Completion(FALSE, <<" ","o","k">>)}

QuerySimilarities == {<<1, 2>>, <<2, 2>>}

IssuerInputs == {<<>>, <<"Visa">>, <<" ", "Verve">>, <<"Amex">>}
TypeInputs == {<<>>, <<"Credit">>, <<"Debit", " ">>}

IdleHarness == [phase |-> "idle"]

InitSession ==
    /\ session = <<>>
    /\ customers_by_id = InitialCustomers
    /\ resp = Response("none", <<>>, 0, "none")
    /\ fullLog = <<>>

\* No request thread is running and the model is not loaded.
InitServer ==
    /\ th = <<>>
    /\ llm = [instance |-> 0, loads |-> 0, inflight |-> 0, present |-> TRUE]

Init ==
    /\ InitSession
    /\ InitServer
    /\ ic = IdleHarness
    /\ kb = IdleHarness
    /\ ck = IdleHarness
    /\ pb = IdleHarness

Authenticate == AuthenticateWith(AccountInputs)

Chat == ChatWith(MessageInputs, ClassifierOutcomes, BOOLEAN, BOOLEAN, GenerationOutcomes,
                 QuerySimilarities, MaxSessionTurns)

BlockCard == BlockCardWith(IssuerInputs, TypeInputs)

Next == Authenticate \/ Chat \/ BlockCard \/ Reset

Spec == Init /\ [][Next]_vars

----------------------------------------------------------------------------
(* Long conversations: many chat turns after one authenticate *)

HistoryMessages == {<<"a">>, <<"b">>, <<"c">>}

HistoryAuthenticate == AuthenticateWith({<<"1","2">>})

HistoryChat == ChatWith(HistoryMessages, {Completion(FALSE, greeting)}, {FALSE}, {FALSE},
                        {Completion(FALSE, <<"o","k">>)}, QuerySimilarities, MaxHistoryChats)

NextHistory == HistoryAuthenticate \/ HistoryChat \/ Reset

SpecHistory == Init /\ [][NextHistory]_vars

----------------------------------------------------------------------------
(* classify_intent applied to every completion outcome *)

Capitalised(label) == [i \in 1..Len(label) |->
                          IF i = 1 \/ label[i - 1] = "_"
                          THEN UpperCase[CHOOSE k \in 1..26 : LowerCase[k] = label[i]]
                          ELSE label[i]]

Pieces == Range(INTENTS) \cup {Capitalised(product_inquiry)}
            \cup {<<" ">>, <<".">>, <<"'">>, <<"x">>}

RECURSIVE Texts(_)
Texts(n) == IF n = 0 THEN {<<>>}
            ELSE Texts(n - 1) \cup {t \o p : t \in Texts(n - 1), p \in Pieces}

CompletionOutcomes ==
    {Completion(TRUE, <<>>)} \cup {Completion(FALSE, t) : t \in Texts(MaxPieces)}

InitIntent ==
    /\ InitSession
    /\ InitServer
    /\ kb = IdleHarness
    /\ ck = IdleHarness
    /\ pb = IdleHarness
    /\ ic \in {[phase |-> "asked", message |-> m, out |-> o, raised |-> FALSE, label |-> <<>>] :
                 m \in {<<>>, <<"h","i">>}, o \in CompletionOutcomes}

Classify ==
    /\ ic.phase = "asked"
    /\ \E r \in {classify_intent(ic.message, ic.out)} :
         ic' = [ic EXCEPT !.phase = "classified", !.raised = r.raised, !.label = r.value]
    /\ UNCHANGED <<session, customers_by_id, resp, fullLog, kb, ck, pb, th, llm>>

SpecIntent == InitIntent /\ [][Classify]_vars

----------------------------------------------------------------------------
(* get_relevant_info applied to every similarity array and every k >= 0 *)

SimilarityArrays == UNION {[1..n -> 0..MaxSim] : n \in 1..MaxChunks}

InitRetrieval ==
    /\ InitSession
    /\ InitServer
    /\ ic = IdleHarness
    /\ ck = IdleHarness
    /\ pb = IdleHarness
    /\ kb \in {[phase |-> "query", similarity |-> s, top_k |-> k, top |-> <<>>] :
                 s \in SimilarityArrays, k \in 0..(MaxChunks + 1)}

Retrieve ==
    /\ kb.phase = "query"
    /\ \E order \in Argsort(kb.similarity) :
         kb' = [kb EXCEPT !.phase = "ranked",
                          !.top = get_relevant_info(<<>>, kb.top_k, order, FALSE).value.chunks]
    /\ UNCHANGED <<session, customers_by_id, resp, fullLog, ic, ck, pb, th, llm>>

SpecRetrieval == InitRetrieval /\ [][Retrieve]_vars

----------------------------------------------------------------------------
(* _split_into_chunks applied to every loaded document *)

LineChoices ==
    {Line("upper", 25), Line("upper", 2), Line("upper", 200),
     Line("item", 25), Line("item", 390),
     Line("text", 10), Line("text", 390), Line("blank", 0)}

\* What _load_txt returns: stripped, and no two blank lines in a row
IsLoadedText(lines) ==
    /\ lines # <<>> => (lines[1].kind # "blank" /\ lines[Len(lines)].kind # "blank")
    /\ \A i \in 1..(Len(lines) - 1) : ~(lines[i].kind = "blank" /\ lines[i + 1].kind = "blank")

Documents == {d \in UNION {[1..n -> LineChoices] : n \in 0..MaxLines} : IsLoadedText(d)}

InitChunker ==
    /\ InitSession
    /\ InitServer
    /\ ic = IdleHarness
    /\ kb = IdleHarness
    /\ pb = IdleHarness
    /\ ck \in {[phase |-> "loaded", lines |-> d, chunks |-> <<>>] : d \in Documents}

Split ==
    /\ ck.phase = "loaded"
    /\ ck' = [ck EXCEPT !.phase = "split", !.chunks = _split_into_chunks(ck.lines)]
    /\ UNCHANGED <<session, customers_by_id, resp, fullLog, ic, kb, pb, th, llm>>

SpecChunker == InitChunker /\ [][Split]_vars

----------------------------------------------------------------------------
(* generate_response applied to each combination of its arguments *)

PromptCustomers == {None} \cup Range(InitialCustomers)

PromptDocs == {NoDocs, [none |-> FALSE, chunks |-> <<>>], [none |-> FALSE, chunks |-> <<1, 2>>]}

PromptHistories ==
    UNION {[1..n -> {Entry(role, <<role>>) : role \in {"user", "assistant"}}] :
             n \in 0..MaxPromptHistory}

InitPrompt ==
    /\ InitSession
    /\ InitServer
    /\ ic = IdleHarness
    /\ kb = IdleHarness
    /\ ck = IdleHarness
    /\ pb \in {[phase |-> "called", message |-> <<"h","i">>, intent |-> intent,
                customer |-> customer, queried_account |-> <<"1","2">>,
                product_docs |-> docs, history |-> history, prompt |-> <<>>] :
                 intent \in Range(INTENTS), customer \in PromptCustomers,
                 docs \in PromptDocs, history \in PromptHistories}

\* The access-control gate answers without a prompt.
RefuseAnonymous ==
    /\ pb.phase = "called"
    /\ pb.customer = None /\ pb.intent \in {account_information, card_block_request}
    /\ pb' = [pb EXCEPT !.phase = "refused"]
    /\ UNCHANGED <<session, customers_by_id, resp, fullLog, ic, kb, ck, th, llm>>

BuildPrompt ==
    /\ pb.phase = "called"
    /\ ~(pb.customer = None /\ pb.intent \in {account_information, card_block_request})
    /\ \E fmtFails \in (IF pb.customer = None THEN {FALSE} ELSE BOOLEAN) :
       \E built \in {_build_prompt(pb.message, pb.intent, pb.customer, pb.queried_account,
                                   pb.product_docs, pb.history, fmtFails)} :
          pb' = [pb EXCEPT !.phase = IF built.raised THEN "raised" ELSE "built",
                           !.prompt = built.value]
    /\ UNCHANGED <<session, customers_by_id, resp, fullLog, ic, kb, ck, th, llm>>

NextPrompt == RefuseAnonymous \/ BuildPrompt

SpecPrompt == InitPrompt /\ [][NextPrompt]_vars

----------------------------------------------------------------------------
(* /api/block-card requests of one browser session *)

CardAccounts == {<<"1","2">>, <<"2","0">>, <<"9","9">>}

CardIssuers == IssuerInputs \cup {AlreadyBlocked}

CardsAuthenticate == AuthenticateWith(CardAccounts)

CardsBlockCard == BlockCardWith(CardIssuers, TypeInputs)

NextCards == CardsAuthenticate \/ CardsBlockCard \/ Reset

SpecCards == Init /\ [][NextCards]_vars

----------------------------------------------------------------------------
(* Request threads of the development server sharing modules/llm.py.  Each
   /api/chat request runs on its own thread and calls generate from
   classify_intent and then from generate_response.  llm.instance is
   _llm_instance (0 for None), llm.loads counts the Llama(...) constructions,
   llm.inflight the llm(...) calls that have begun and not returned, and
   llm.present tells whether the model file exists. *)

Thread(pc, call) == [pc |-> pc, call |-> call, handle |-> 0, new |-> 0]

\* Where a request thread goes when a generate call has returned or raised:
\* after classify_intent either generate_response calls generate, or the
\* handler ends without it (access-control reply, unhandled exception).
AfterGenerate(thread) ==
    IF thread.call = "classify_intent"
    THEN {Thread("check", "generate_response"), Thread("done", "generate_response")}
    ELSE {Thread("done", thread.call)}

InitConcurrent ==
    /\ InitSession
    /\ ic = IdleHarness
    /\ kb = IdleHarness
    /\ ck = IdleHarness
    /\ pb = IdleHarness
    /\ th = <<>>
    /\ llm \in {[instance |-> 0, loads |-> 0, inflight |-> 0, present |-> present] :
                  present \in BOOLEAN}

\* app.run serves each request on a new thread.
AcceptRequest ==
    /\ Len(th) < MaxThreads
    /\ th' = Append(th, Thread("check", "classify_intent"))
    /\ UNCHANGED <<session, customers_by_id, resp, fullLog, ic, kb, ck, pb, llm>>

\* get_llm: `if _llm_instance is not None: return _llm_instance', then the
\* check of the model path
GetLlmCheck ==
    \E t \in 1..Len(th) :
        /\ th[t].pc = "check"
        /\ IF llm.instance # 0
           THEN th' = [th EXCEPT ![t].pc = "call", ![t].handle = llm.instance]
           ELSE IF ~llm.present
           THEN \E next \in AfterGenerate(th[t]) : th' = [th EXCEPT ![t] = next]
           ELSE th' = [th EXCEPT ![t].pc = "construct"]
        /\ UNCHANGED <<session, customers_by_id, resp, fullLog, ic, kb, ck, pb, llm>>

\* get_llm: Llama(model_path=...)
ConstructLlama ==
    \E t \in 1..Len(th) :
        /\ th[t].pc = "construct"
        /\ llm' = [llm EXCEPT !.loads = llm.loads + 1]
        /\ th' = [th EXCEPT ![t].pc = "assign", ![t].new = llm.loads + 1]
        /\ UNCHANGED <<session, customers_by_id, resp, fullLog, ic, kb, ck, pb>>

\* get_llm: _llm_instance = <the new object>
AssignInstance ==
    \E t \in 1..Len(th) :
        /\ th[t].pc = "assign"
        /\ llm' = [llm EXCEPT !.instance = th[t].new]
        /\ th' = [th EXCEPT ![t].pc = "return"]
        /\ UNCHANGED <<session, customers_by_id, resp, fullLog, ic, kb, ck, pb>>

\* get_llm: return _llm_instance
ReturnInstance ==
    \E t \in 1..Len(th) :
        /\ th[t].pc = "return"
        /\ th' = [th EXCEPT ![t].pc = "call", ![t].handle = llm.instance]
        /\ UNCHANGED <<session, customers_by_id, resp, fullLog, ic, kb, ck, pb, llm>>

\* generate: llm(prompt, ...) begins
BeginInference ==
    \E t \in 1..Len(th) :
        /\ th[t].pc = "call"
        /\ llm' = [llm EXCEPT !.inflight = llm.inflight + 1]
        /\ th' = [th EXCEPT ![t].pc = "inferring"]
        /\ UNCHANGED <<session, customers_by_id, resp, fullLog, ic, kb, ck, pb>>

\* generate: llm(prompt, ...) returns or raises
EndInference ==
    \E t \in 1..Len(th) :
        /\ th[t].pc = "inferring"
        /\ llm' = [llm EXCEPT !.inflight = llm.inflight - 1]
        /\ \E next \in AfterGenerate(th[t]) : th' = [th EXCEPT ![t] = next]
        /\ UNCHANGED <<session, customers_by_id, resp, fullLog, ic, kb, ck, pb>>

NextConcurrent ==
    \/ AcceptRequest
    \/ GetLlmCheck
    \/ ConstructLlama
    \/ AssignInstance
    \/ ReturnInstance
    \/ BeginInference
    \/ EndInference

SpecConcurrent == InitConcurrent /\ [][NextConcurrent]_vars

----------------------------------------------------------------------------
(* Long conversations of an authenticated and of an anonymous session about
   the account: the reply is the completion, the apology or the fixed
   restriction message *)

ConversationAuthenticate == AuthenticateWith({<<"1","2">>, <<"9","9">>})

ConversationChat == ChatWith({<<>>, <<"a">>}, {Completion(FALSE, account_information)}, {FALSE}, {FALSE}, GenerationOutcomes, QuerySimilarities, MaxHistoryChats)

NextConversation == ConversationAuthenticate \/ ConversationChat \/ Reset

SpecConversation == Init /\ [][NextConversation]_vars

----------------------------------------------------------------------------
(* Properties *)

LookupMiss(raw) ==
    ParseInt(raw).raised \/ ParseInt(raw).value \notin DOMAIN _ACCOUNTS_BY_NO

\* C1 as stated: an Authenticated session becomes Unauthenticated only
\* through /api/reset.
C1_OnlyResetUnauthenticates ==
    [][(Authenticated(session) /\ ~Authenticated(session')) => resp'.route = "reset"]_vars

\* C1 amended: an Authenticated session becomes Unauthenticated only through
\* /api/reset or through an accepted /api/authenticate whose account number
\* is not a known account; /api/chat and /api/block-card never do it.
C1_UnauthenticatedOnlyByResetOrMiss ==
    [][(Authenticated(session) /\ ~Authenticated(session'))
         => \/ resp'.route = "reset"
            \/ /\ resp'.route = "authenticate"
               /\ resp'.status = 200
               /\ LookupMiss(resp'.arg)]_vars

C1_Witness ==
    /\ resp.route = "authenticate"
    /\ resp.before = "authenticated"
    /\ LookupMiss(resp.arg)
    /\ ~Authenticated(session)
    /\ ~NoSession(session)

\* C2: once /api/reset has run, the session holds no key until the next
\* /api/authenticate, and every /api/chat in between answers 403 without
\* calling the classifier, the index or the completion service.
C2_ChatAfterResetIs403 ==
    [][/\ resp'.route = "reset" => NoSession(session')
       /\ (NoSession(session) /\ resp'.route # "authenticate") => NoSession(session')
       /\ ((NoSession(session) \/ resp.route = "reset") /\ resp'.route = "chat")
            => (resp'.status = 403 /\ resp'.kind = "error" /\ resp'.calls = <<>>)]_vars

\* A blocked card shows that a customer was authenticated earlier; the
\* session can only have lost its keys through a later reset.
C2_Witness ==
    /\ resp.route = "chat"
    /\ resp.status = 403
    /\ \E i \in 1..Len(customers_by_id[1].cards) : customers_by_id[1].cards[i].status = "Blocked"

\* C3: the stored history has at most 2*MAX_HISTORY_TURNS entries and is the
\* most recent entries, in order, of everything appended since authenticate.
C3_HistoryIsCappedSuffix ==
    ~NoSession(session) =>
        /\ Len(session.history) <= 2 * MAX_HISTORY_TURNS
        /\ \E k \in 0..Len(fullLog) :
             /\ k = Len(fullLog) - Len(session.history)
             /\ \A i \in 1..Len(session.history) : session.history[i] = fullLog[k + i]
        /\ Len(fullLog) >= 2 * MAX_HISTORY_TURNS => Len(session.history) = 2 * MAX_HISTORY_TURNS
        /\ Len(fullLog) < 2 * MAX_HISTORY_TURNS => session.history = fullLog

C3_Witness ==
    /\ ~NoSession(session)
    /\ Len(fullLog) > 2 * MAX_HISTORY_TURNS
    /\ session.history[1] # fullLog[1]

\* C4: with no customer, account_information gets the fixed restriction
\* message and card_block_request the fixed card-block message, and the
\* completion service is not called for the reply.
C4_AnonymousGate ==
    (resp.route = "chat" /\ resp.before = "anonymous"
       /\ resp.intent \in {account_information, card_block_request})
    => /\ resp.status = 200
       /\ resp.reply = IF resp.intent = account_information
                       THEN ANONYMOUS_RESTRICTION_MSG ELSE CARD_BLOCK_ANONYMOUS_MSG
       /\ "generate" \notin Range(resp.calls)

C4_Witness ==
    /\ resp.route = "chat"
    /\ resp.before = "anonymous"
    /\ resp.intent = account_information
    /\ resp.reply = ANONYMOUS_RESTRICTION_MSG
    /\ resp.calls = <<"classify_intent">>

\* C5 as stated: a chat request ends in the 403, the 400 or a normal
\* {reply, intent} response, whatever collaborator fails.
C5_ChatNeverUnhandled ==
    resp.route = "chat" =>
        \/ resp.status = 403 /\ resp.kind = "error"
        \/ resp.status = 400 /\ resp.kind = "error"
        \/ resp.status = 200 /\ resp.kind = "json"

\* C6: classify_intent never raises, and a failed or empty completion gives
\* general_inquiry.
C6_ClassifyNeverRaises ==
    ic.phase = "classified" =>
        /\ ~ic.raised
        /\ (ic.out.err \/ Range(ic.out.text) \subseteq Whitespace) => ic.label = general_inquiry

C6_Witness ==
    /\ ic.phase = "classified"
    /\ ic.out.err
    /\ ic.message = <<>>
    /\ ic.label = general_inquiry

\* The parsing policy, stated on the completion text.
\* text[i..j] is the first whitespace-delimited token of text
IsTokenStart(text, i) ==
    /\ text[i] \notin Whitespace
    /\ \A n \in 1..(i - 1) : text[n] \in Whitespace

IsTokenEnd(text, i, j) ==
    /\ \A n \in i..j : text[n] \notin Whitespace
    /\ j < Len(text) => text[j + 1] \in Whitespace

\* L is what is left of the lower-cased token text[i..j] once the punctuation
\* around it is dropped
IsStrippedToken(text, i, j, L) ==
    \E a \in i..j :
        /\ a + Len(L) - 1 <= j
        /\ \A n \in i..(a - 1) : text[n] \in Punct
        /\ \A n \in (a + Len(L))..j : text[n] \in Punct
        /\ \A n \in 0..(Len(L) - 1) : LowerChar(text[a + n]) = L[n + 1]

TokenLabels(text) ==
    {L \in Range(INTENTS) :
        \E i \in 1..Len(text) :
            /\ IsTokenStart(text, i)
            /\ \E j \in i..Len(text) :
                 IsTokenEnd(text, i, j) /\ IsStrippedToken(text, i, j, L)}

Occurs(L, text) ==
    \E a \in 1..Len(text) :
        /\ a + Len(L) - 1 <= Len(text)
        /\ \A n \in 0..(Len(L) - 1) : LowerChar(text[a + n]) = L[n + 1]

Policy(text) ==
    IF TokenLabels(text) # {} THEN CHOOSE L \in TokenLabels(text) : TRUE
    ELSE IF \E i \in 1..Len(INTENTS) : Occurs(INTENTS[i], text)
    THEN INTENTS[CHOOSE i \in 1..Len(INTENTS) :
                    /\ Occurs(INTENTS[i], text)
                    /\ \A j \in 1..(i - 1) : ~Occurs(INTENTS[j], text)]
    ELSE general_inquiry

Positions(calls, name) == {i \in 1..Len(calls) : calls[i] = name}

\* C8: for an authenticated session and a message classified product_inquiry
\* there is exactly one retrieval call, after the classification and before
\* the completion call of the response.
C8_OneRetrievalBeforeCompletion ==
    (resp.route = "chat" /\ resp.before = "authenticated" /\ resp.intent = product_inquiry)
    => /\ Cardinality(Positions(resp.calls, "get_relevant_info")) = 1
       /\ \A r \in Positions(resp.calls, "get_relevant_info") :
            /\ \E c \in Positions(resp.calls, "classify_intent") : c < r
            /\ \A g \in Positions(resp.calls, "generate") : r < g

C8_Witness ==
    /\ resp.route = "chat"
    /\ resp.before = "authenticated"
    /\ resp.intent = product_inquiry
    /\ resp.status = 200
    /\ resp.calls = <<"classify_intent", "get_relevant_info", "format_customer_context",
                      "generate">>

\* The ranking a stable descending sort gives: by similarity, ties by chunk id.
Before(similarity, a, b) ==
    similarity[a] > similarity[b] \/ (similarity[a] = similarity[b] /\ a < b)

StableRank(similarity, c) ==
    1 + Cardinality({d \in 1..Len(similarity) : Before(similarity, d, c)})

\* C9 as stated: the result is in descending similarity with ties in chunk
\* order, and the chunks kept are the first top_k of that stable ranking.
C9_StableDescending ==
    kb.phase = "ranked" =>
        \A i \in 1..Len(kb.top) : StableRank(kb.similarity, kb.top[i]) = i

\* C10: at most k chunks, none for k = 0, and every chunk exactly once when
\* k is at least the number of chunks (k >= 0).
C10_AtMostK ==
    kb.phase = "ranked" =>
        /\ Len(kb.top) <= kb.top_k
        /\ kb.top_k = 0 => kb.top = <<>>
        /\ \A i, j \in 1..Len(kb.top) : i # j => kb.top[i] # kb.top[j]
        /\ Range(kb.top) \subseteq 1..Len(kb.similarity)
        /\ kb.top_k >= Len(kb.similarity) => Range(kb.top) = 1..Len(kb.similarity)

C10_Witness ==
    /\ kb.phase = "ranked"
    /\ kb.top_k > Len(kb.similarity)
    /\ Len(kb.similarity) > 1
    /\ Len(kb.top) = Len(kb.similarity)

\* C11 as stated: every chunk is non-empty and below KB_CHUNK_SIZE, and the
\* chunks are in document order.
C11_ChunksBelowMaximum ==
    ck.phase = "split" =>
        /\ \A k \in 1..Len(ck.chunks) :
             ck.chunks[k].len > 0 /\ ck.chunks[k].len < KB_CHUNK_SIZE
        /\ \A k \in 1..(Len(ck.chunks) - 1) : ck.chunks[k].last < ck.chunks[k + 1].first

\* The sections the prompt must have, the documentation block being present
\* when withDocs holds.
PromptSections(withDocs) ==
    <<"base">>
    \o (IF pb.customer # None THEN <<"customer">> ELSE <<"anonymous">>)
    \o (IF pb.intent = card_block_request /\ pb.customer # None THEN <<"cards">> ELSE <<>>)
    \o (IF withDocs THEN <<"docs">> ELSE <<>>)

PromptIs(withDocs) ==
    LET head == PromptSections(withDocs)
        n == Len(head)
        h == Len(pb.history)
    IN  /\ Len(pb.prompt) = n + h + 1
        /\ \A i \in 1..n : pb.prompt[i].block = head[i]
        /\ \A i \in 1..n :
              /\ pb.prompt[i].block = "cards" => pb.prompt[i].body = _format_cards(pb.customer)
              /\ pb.prompt[i].block = "docs" => pb.prompt[i].body = pb.product_docs.chunks
        /\ \A i \in 1..h :
              /\ pb.prompt[n + i].block = pb.history[i].role
              /\ pb.prompt[n + i].body = pb.history[i].content
        /\ pb.prompt[n + h + 1] = Block("user", pb.message)

\* C12 as stated: base, customer or anonymous block, card block iff
\* card_block_request and authenticated, documentation block iff the docs are
\* non-null (an empty docs string included), the history turns in order, the
\* new message last.
C12_DocsBlockIffNonNull ==
    pb.phase = "built" => PromptIs(~pb.product_docs.none)

\* C12 amended: as above, with the documentation block present iff the docs
\* are non-null and non-empty.
C12_PromptSections ==
    pb.phase = "built" => PromptIs(~pb.product_docs.none /\ pb.product_docs.chunks # <<>>)

C12_Witness ==
    /\ pb.phase = "built"
    /\ pb.customer # None /\ Len(pb.customer.cards) = 2
    /\ pb.intent = card_block_request
    /\ pb.product_docs.chunks # <<>>
    /\ Len(pb.history) = MaxPromptHistory /\ pb.history[1].role # pb.history[2].role

\* The status the outcome of a block-card request calls for, given the session
\* and the store the request met.
OutcomeStatus(s, store, card_issuer, card_type) ==
    IF ~Authenticated(s) THEN 403
    ELSE LET cards == store[Get(s, "customer", None).id].cards
             named == {i \in 1..Len(cards) : /\ cards[i].card_issuer = card_issuer
                                             /\ cards[i].card_type = card_type}
         IN  IF named = {} THEN 404
             ELSE IF cards[MinOf(named)].status = "Blocked" THEN 400
             ELSE 200

\* C13 as stated: 403 and no block action when the session is not
\* authenticated; otherwise 200 when the named card is blocked, 400 when it
\* is already blocked, 404 when the account has no such card, for every
\* card_issuer and card_type.
C13_StatusFixedByOutcome ==
    [][resp'.route = "block-card" =>
         /\ resp'.status = OutcomeStatus(session, customers_by_id,
                                         Strip(resp'.arg[1]), Strip(resp'.arg[2]))
         /\ ~Authenticated(session) => customers_by_id' = customers_by_id]_vars

\* C14 as stated: there is never more than one in-flight inference call
\* against the shared model at a time.
C14_OneInferenceAtATime == llm.inflight <= 1

\* C16 as stated: the model constructor runs at most once and every caller
\* uses the same instance.
C16_LoadedAtMostOnce ==
    /\ llm.loads <= 1
    /\ \A t, u \in 1..Len(th) :
          (th[t].handle # 0 /\ th[u].handle # 0) => th[t].handle = th[u].handle

\* A field that is missing, empty or made of whitespace only
Blank(text) == \A i \in 1..Len(text) : text[i] \in Whitespace

\* C15: /api/authenticate with a blank account_number, and /api/chat on an
\* existing session with a blank message, answer 400, call no component and
\* leave every session field and the customer store unchanged.
C15_ValidationFailureHasNoEffect ==
    [][(/\ Blank(resp'.arg)
        /\ \/ resp'.route = "authenticate"
           \/ resp'.route = "chat" /\ ~NoSession(session))
       => /\ resp'.status = 400
          /\ resp'.calls = <<>>
          /\ session' = session
          /\ customers_by_id' = customers_by_id]_vars

C15_Witness ==
    /\ resp.route = "chat" /\ resp.arg = <<" ">> /\ resp.status = 400
    /\ Authenticated(session)
    /\ Len(session.history) > 0

\* Even length, user and assistant entries alternating from a user entry
WellFormed(history) ==
    /\ Len(history) % 2 = 0
    /\ \A i \in 1..Len(history) :
          history[i].role = (IF i % 2 = 1 THEN "user" ELSE "assistant")

\* The last n entries of a list, all of it when it is shorter
LastEntries(history, n) ==
    IF Len(history) <= n THEN history
    ELSE [i \in 1..n |-> history[Len(history) - n + i]]

\* C17: the stored history is always well-formed; a successful chat appends
\* the user entry and then the assistant entry carrying the reply, cut to the
\* most recent 2*MAX_HISTORY_TURNS entries; an accepted authenticate empties it.
C17_HistoryWellFormed ==
    [][/\ WellFormed(Get(session', "history", <<>>))
       /\ (resp'.route = "chat" /\ resp'.status = 200) =>
             session'.history =
                 LastEntries(session.history \o <<Entry("user", Strip(resp'.arg)),
                                                  Entry("assistant", resp'.reply)>>,
                             2 * MAX_HISTORY_TURNS)
       /\ (resp'.route = "chat" /\ resp'.status # 200) => session' = session
       /\ (resp'.route = "authenticate" /\ resp'.status = 200) =>
             session'.history = <<>>]_vars

C17_Witness ==
    /\ Authenticated(session)
    /\ Len(fullLog) > 2 * MAX_HISTORY_TURNS
    /\ resp.route = "chat" /\ resp.reply = APOLOGY_MSG
    /\ \E i \in 1..Len(session.history) : session.history[i].content = <<"o","k">>

====
